---- MODULE Spec2Model ----
(***************************************************************************)
(* git-editor.py: rewrite the history of a git repository.  main() resets  *)
(* the origin URL, spreads the commit dates over an interval, rewrites the *)
(* author and committer of every commit through `git rebase -i --root`     *)
(* driven by a generated instruction script, collects garbage and          *)
(* optionally force-pushes.                                                *)
(*                                                                         *)
(* Strings the program inspects character by character (the timezone, the  *)
(* ISO timestamps, the identity, the formatted dates) are sequences of     *)
(* one-character strings.  A datetime is [ord, sec, us] (proleptic         *)
(* Gregorian ordinal of the day, second of the day, microsecond); a        *)
(* timedelta is the normalised [days, secs, us] of Python's timedelta.     *)
(***************************************************************************)
EXTENDS Integers, Sequences, FiniteSets, TLC

VARIABLES
    pc,             \* position of main()
    args,           \* the argparse namespace (lines 15-54), updated by main
    edit_dates,     \* line 112
    choice,         \* lines 127, 312: the answer to the last yes/no question
    author, email,  \* lines 154-162
    commits,        \* line 178: the oldest-to-newest listing
    st, et, step,   \* lines 186-215
    tz_delta, tz_git_format,      \* lines 236-238
    rebase_script_parts,          \* lines 247-263
    editor_script,  \* TRUE while the temporary editor script file exists
    rebase_rc,      \* rebase_proc.returncode: "none", 0, 1 or "raised"
    ops,            \* the git commands that changed the repository, in order
    printed,        \* the messages written to stdout / stderr, in order
    failure,        \* which check ended the run ("none" while none has)
    exit_code       \* the process exit status, "running" until the run ends

vars == <<pc, args, edit_dates, choice, author, email, commits, st, et, step, tz_delta,
          tz_git_format, rebase_script_parts, editor_script, rebase_rc, ops,
          printed, failure, exit_code>>

-----------------------------------------------------------------------------
(* Bounds of the model.                                                    *)

MaxCommits == 4

-----------------------------------------------------------------------------
(* Characters and Python's string helpers.                                 *)

Digits == <<"0", "1", "2", "3", "4", "5", "6", "7", "8", "9">>

IsDigit(c) == \E i \in 1..10 : Digits[i] = c

DigitVal(c) == (CHOOSE i \in 1..10 : Digits[i] = c) - 1

RECURSIVE Join(_)
\* "".join(s): the characters of s as one string
Join(s) == IF s = <<>> THEN "" ELSE Head(s) \o Join(Tail(s))

RECURSIVE Zeros(_)
Zeros(k) == IF k <= 0 THEN <<>> ELSE <<"0">> \o Zeros(k - 1)

RECURSIVE DigitsOf(_)
\* the decimal digits of n >= 0, most significant first, without padding
DigitsOf(n) == IF n < 10 THEN <<Digits[n + 1]>>
               ELSE DigitsOf(n \div 10) \o <<Digits[(n % 10) + 1]>>

\* "%0wd" % n for n >= 0, as strftime writes %Y (w = 4) and %m %d %H %M %S (w = 2)
Pad(n, w) == Zeros(w - Len(DigitsOf(n))) \o DigitsOf(n)

\* str.zfill(width): zeros are inserted after a leading sign; a string
\* already at least `width` long is returned unchanged
zfill(s, width) ==
    IF Len(s) >= width THEN s
    ELSE IF s # <<>> /\ Head(s) \in {"+", "-"}
         THEN <<Head(s)>> \o Zeros(width - Len(s)) \o Tail(s)
         ELSE Zeros(width - Len(s)) \o s

Whitespace == {" ", "\t", "\n", "\r"}

RECURSIVE lstrip(_)
lstrip(s) == IF s # <<>> /\ Head(s) \in Whitespace THEN lstrip(Tail(s)) ELSE s

RECURSIVE rstrip(_)
rstrip(s) == IF s # <<>> /\ s[Len(s)] \in Whitespace
             THEN rstrip(SubSeq(s, 1, Len(s) - 1)) ELSE s

strip(s) == rstrip(lstrip(s))

\* str.lower() on the letters the prompts' answers are made of
LowerOf(c) == CASE c = "Y" -> "y" [] c = "E" -> "e" [] c = "S" -> "s"
                [] c = "N" -> "n" [] c = "O" -> "o" [] OTHER -> c

lower(s) == [i \in 1..Len(s) |-> LowerOf(s[i])]

\* clean_input (lines 57-59): drop the characters below " " and DEL
ControlChars == {"\t", "\n", "\r"}

clean_input(s) == SelectSeq(s, LAMBDA ch : ch \notin ControlChars)

\* the positions of character c in s
Positions(s, c) == {i \in 1..Len(s) : s[i] = c}

\* the body of an integer literal: digits, single underscores between digits
IsDigitRun(s) ==
    /\ s # <<>>
    /\ \A i \in 1..Len(s) : IsDigit(s[i]) \/ s[i] = "_"
    /\ IsDigit(s[1]) /\ IsDigit(s[Len(s)])
    /\ \A i \in 1..(Len(s) - 1) : ~(s[i] = "_" /\ s[i + 1] = "_")

RECURSIVE DigitRunVal(_, _)
DigitRunVal(s, acc) ==
    IF s = <<>> THEN acc
    ELSE IF Head(s) = "_" THEN DigitRunVal(Tail(s), acc)
    ELSE DigitRunVal(Tail(s), acc * 10 + DigitVal(Head(s)))

\* int(s): surrounding whitespace is ignored, one sign is allowed
IntBody(s) == IF strip(s) # <<>> /\ Head(strip(s)) \in {"+", "-"}
              THEN Tail(strip(s)) ELSE strip(s)

IntOk(s) == IsDigitRun(IntBody(s))

int(s) == IF strip(s) # <<>> /\ Head(strip(s)) = "-"
          THEN 0 - DigitRunVal(IntBody(s), 0)
          ELSE DigitRunVal(IntBody(s), 0)

\* escape_shell_single_quote (lines 69-70): s.replace("'", "'\"'\"'")
RECURSIVE escape_shell_single_quote(_)
escape_shell_single_quote(s) ==
    IF s = <<>> THEN <<>>
    ELSE (IF Head(s) = "'" THEN <<"'", "\"", "'", "\"", "'">> ELSE <<Head(s)>>)
         \o escape_shell_single_quote(Tail(s))

-----------------------------------------------------------------------------
(* The calendar of Python's datetime (proleptic Gregorian), which          *)
(* datetime.fromisoformat (lines 194-195) and strftime (line 258) use.     *)

DaysInMonth == <<31, 28, 31, 30, 31, 30, 31, 31, 30, 31, 30, 31>>

DaysBeforeMonth == <<0, 31, 59, 90, 120, 151, 181, 212, 243, 273, 304, 334>>

is_leap(y) == y % 4 = 0 /\ (y % 100 # 0 \/ y % 400 = 0)

days_in_month(y, m) == IF m = 2 /\ is_leap(y) THEN 29 ELSE DaysInMonth[m]

days_before_year(y) ==
    (y - 1) * 365 + ((y - 1) \div 4) - ((y - 1) \div 100) + ((y - 1) \div 400)

days_before_month(y, m) ==
    DaysBeforeMonth[m] + (IF m > 2 /\ is_leap(y) THEN 1 ELSE 0)

\* date(y, m, d).toordinal(): 0001-01-01 is day 1
ymd2ord(y, m, d) == days_before_year(y) + days_before_month(y, m) + d

\* the year of ordinal n, and then its month and day
ord2ymd(n) ==
    LET n0   == n - 1
        n400 == n0 \div 146097
        r400 == n0 % 146097
        n100 == r400 \div 36524
        r100 == r400 % 36524
        n4   == r100 \div 1461
        r4   == r100 % 1461
        n1   == r4 \div 365
        r1   == r4 % 365
        year == n400 * 400 + 1 + n100 * 100 + n4 * 4 + n1
    IN  IF n1 = 4 \/ n100 = 4
        THEN [year |-> year - 1, month |-> 12, day |-> 31]
        ELSE LET leap  == n1 = 3 /\ (n4 # 24 \/ n100 = 3)
                 lp(m) == IF m > 2 /\ leap THEN 1 ELSE 0
                 m0    == (r1 + 50) \div 32
                 month == IF DaysBeforeMonth[m0] + lp(m0) > r1 THEN m0 - 1 ELSE m0
             IN  [year  |-> year, month |-> month,
                  day   |-> r1 - (DaysBeforeMonth[month] + lp(month)) + 1]

\* timedelta(days, seconds, microseconds): the normalised representation,
\* 0 <= secs < 86400 and 0 <= us < 1000000, the sign carried by days
timedelta(d, s, u) ==
    LET s1 == s + (u \div 1000000)
    IN  [days |-> d + (s1 \div 86400), secs |-> s1 % 86400, us |-> u % 1000000]

\* datetime - datetime (line 215: et - st)
DtSub(a, b) == timedelta(a.ord - b.ord, a.sec - b.sec, a.us - b.us)

\* datetime + timedelta (lines 254, 256)
DtAdd(dt, td) ==
    LET r == timedelta(dt.ord + td.days, dt.sec + td.secs, dt.us + td.us)
    IN  [ord |-> r.days, sec |-> r.secs, us |-> r.us]

\* datetime < datetime (line 201)
DtLess(a, b) ==
    \/ a.ord < b.ord
    \/ a.ord = b.ord /\ a.sec < b.sec
    \/ a.ord = b.ord /\ a.sec = b.sec /\ a.us < b.us

\* _divide_and_round(a, b) for a >= 0, b > 0: the nearest integer to a / b,
\* a tie going to the even one
divide_and_round(a, b) ==
    LET q == a \div b
        r == a % b
    IN  IF 2 * r > b \/ (2 * r = b /\ q % 2 = 1) THEN q + 1 ELSE q

\* timedelta / int (line 215) for a non-negative timedelta: the total number
\* of microseconds divided and rounded once.  The long division carries the
\* remainder of the days into the seconds and of the seconds into the
\* microseconds, which yields the same quotient with small numbers.
TdDiv(td, k) ==
    LET s1 == (td.days % k) * 86400 + td.secs
        u1 == (s1 % k) * 1000000 + td.us
    IN  timedelta(td.days \div k, s1 \div k, divide_and_round(u1, k))

\* timedelta * int (line 254: step * i)
TdMul(td, i) == timedelta(td.days * i, td.secs * i, td.us * i)

\* datetime.fromisoformat of YYYY-MM-DD, YYYY-MM-DDTHH:MM:SS and
\* YYYY-MM-DDTHH:MM:SS.ffffff; any other string raises ValueError.  The
\* result is a naive datetime: strings carrying an offset or "Z" are not
\* among the inputs of the model.
Num(s, i, j) == DigitRunVal(SubSeq(s, i, j), 0)

AllDigits(s, i, j) == \A k \in i..j : IsDigit(s[k])

IsoDateOk(s) ==
    /\ Len(s) >= 10
    /\ AllDigits(s, 1, 4) /\ s[5] = "-" /\ AllDigits(s, 6, 7)
    /\ s[8] = "-" /\ AllDigits(s, 9, 10)
    /\ Num(s, 1, 4) >= 1
    /\ Num(s, 6, 7) \in 1..12
    /\ Num(s, 9, 10) >= 1
    /\ Num(s, 9, 10) <= days_in_month(Num(s, 1, 4), Num(s, 6, 7))

IsoTimeOk(s) ==
    /\ Len(s) >= 19
    /\ s[11] = "T"
    /\ AllDigits(s, 12, 13) /\ s[14] = ":" /\ AllDigits(s, 15, 16)
    /\ s[17] = ":" /\ AllDigits(s, 18, 19)
    /\ Num(s, 12, 13) <= 23 /\ Num(s, 15, 16) <= 59 /\ Num(s, 18, 19) <= 59

IsoOk(s) ==
    \/ Len(s) = 10 /\ IsoDateOk(s)
    \/ Len(s) = 19 /\ IsoDateOk(s) /\ IsoTimeOk(s)
    \/ Len(s) = 26 /\ IsoDateOk(s) /\ IsoTimeOk(s)
                   /\ s[20] = "." /\ AllDigits(s, 21, 26)

fromisoformat(s) ==
    [ord |-> ymd2ord(Num(s, 1, 4), Num(s, 6, 7), Num(s, 9, 10)),
     sec |-> IF Len(s) >= 19
             THEN Num(s, 12, 13) * 3600 + Num(s, 15, 16) * 60 + Num(s, 18, 19)
             ELSE 0,
     us  |-> IF Len(s) = 26 THEN Num(s, 21, 26) ELSE 0]

\* datetime.isoformat() (lines 117, 143): the fraction is written only when
\* the microsecond is not zero
isoformat(dt) ==
    LET d == ord2ymd(dt.ord)
    IN  Pad(d.year, 4) \o <<"-">> \o Pad(d.month, 2) \o <<"-">> \o Pad(d.day, 2)
        \o <<"T">> \o Pad(dt.sec \div 3600, 2) \o <<":">>
        \o Pad((dt.sec % 3600) \div 60, 2) \o <<":">> \o Pad(dt.sec % 60, 2)
        \o (IF dt.us = 0 THEN <<>> ELSE <<".">> \o Pad(dt.us, 6))

\* dt.strftime("%Y-%m-%d %H:%M:%S " + tz) (line 258): the microsecond is
\* dropped, not rounded
strftime(dt, tz) ==
    LET d == ord2ymd(dt.ord)
    IN  Pad(d.year, 4) \o <<"-">> \o Pad(d.month, 2) \o <<"-">> \o Pad(d.day, 2)
        \o <<" ">> \o Pad(dt.sec \div 3600, 2) \o <<":">>
        \o Pad((dt.sec % 3600) \div 60, 2) \o <<":">> \o Pad(dt.sec % 60, 2)
        \o <<" ">> \o tz

-----------------------------------------------------------------------------
(* The timezone offset (lines 217-242) and the per-commit date             *)
(* (lines 215, 252-259).                                                   *)

\* tz_str[1:] (line 223)
time_part(tz_str) == Tail(tz_str)

\* hh, mm = time_part.split(":") (line 226), defined when there is one colon
ColonAt(tz_str) == CHOOSE p \in Positions(time_part(tz_str), ":") : TRUE

hh(tz_str) == SubSeq(time_part(tz_str), 1, ColonAt(tz_str) - 1)

mm(tz_str) == SubSeq(time_part(tz_str), ColonAt(tz_str) + 1, Len(time_part(tz_str)))

\* the largest hour and minute the range check lets through (lines 231, 233)
MaxTzHours == 14

MaxTzMinutes == 59

\* no statement of the try block raises (lines 218-238)
TzAccepted(tz_str) ==
    /\ tz_str # <<>> /\ Head(tz_str) \in {"+", "-"}                \* line 220
    /\ Positions(time_part(tz_str), ":") # {}                      \* line 224
    /\ Cardinality(Positions(time_part(tz_str), ":")) = 1          \* line 226
    /\ IntOk(hh(tz_str)) /\ IntOk(mm(tz_str))                      \* lines 227-228
    /\ ~ \/ int(hh(tz_str)) < 0                                    \* lines 229-235
         \/ int(hh(tz_str)) > MaxTzHours
         \/ int(mm(tz_str)) < 0
         \/ int(mm(tz_str)) > MaxTzMinutes

\* str(e) of the exception the try block raises on a string it rejects
TzError(tz_str) ==
    IF ~(tz_str # <<>> /\ Head(tz_str) \in {"+", "-"})
    THEN "Timezone must start with + or -"
    ELSE IF Positions(time_part(tz_str), ":") = {}
    THEN "Timezone must include colon separator"
    ELSE IF Cardinality(Positions(time_part(tz_str), ":")) > 1
    THEN "too many values to unpack (expected 2)"
    ELSE IF ~IntOk(hh(tz_str))
    THEN "invalid literal for int() with base 10: '" \o Join(hh(tz_str)) \o "'"
    ELSE IF ~IntOk(mm(tz_str))
    THEN "invalid literal for int() with base 10: '" \o Join(mm(tz_str)) \o "'"
    ELSE "Invalid hour or minute values"

\* the first line written for a rejected string (line 240)
TzErrorLine(tz_str) ==
    "Error: invalid timezone format '" \o Join(tz_str) \o "': " \o TzError(tz_str)

\* sign (line 222)
TzSign(tz_str) == IF Head(tz_str) = "+" THEN 1 ELSE -1

\* timedelta(hours=.., minutes=..) * sign (line 236)
TzDelta(tz_str) ==
    timedelta(0, TzSign(tz_str) * (int(hh(tz_str)) * 3600 + int(mm(tz_str)) * 60), 0)

\* f"{'+' if sign == 1 else '-'}{hh.zfill(2)}{mm.zfill(2)}" (line 238)
TzGitFormat(tz_str) ==
    <<IF TzSign(tz_str) = 1 THEN "+" ELSE "-">>
    \o zfill(hh(tz_str), 2) \o zfill(mm(tz_str), 2)

\* step = (et - st) / (n - 1) if n > 1 else timedelta() (line 215)
Step(s, e, n) == IF n > 1 THEN TdDiv(DtSub(e, s), n - 1) ELSE timedelta(0, 0, 0)

\* dt = st + step * i if n > 1 else st (line 254), i counted from 0
CommitTime(s, stp, n, i) == IF n > 1 THEN DtAdd(s, TdMul(stp, i)) ELSE s

\* CommitDate without the addition of line 256: C6 must tell the two apart
CommitDateUnshifted(dt, delta, fmt) == strftime(dt, fmt)

\* ds (lines 256-258): the offset is added to dt and the sum is formatted
CommitDate(dt, delta, fmt) == strftime(DtAdd(dt, delta), fmt)

\* the two lines of the script for commit number i + 1 (lines 249-263)
PickLine(commit_hash) == <<"pick ", commit_hash>>

ExecLine(escaped_author, escaped_email, date_cmd_part) ==
    <<"exec GIT_COMMITTER_NAME='", escaped_author,
      "' GIT_COMMITTER_EMAIL='", escaped_email, "' ">>
    \o date_cmd_part
    \o <<"git commit --amend --no-edit --author='", escaped_author,
         " <", escaped_email, ">'">>

DateCmdPart(ds) == <<"GIT_COMMITTER_DATE='", ds, "' GIT_AUTHOR_DATE='", ds, "' ">>

\* CommitAt with the listing walked newest first: C3 must tell the two apart
CommitAtNewestFirst(cs, i) == cs[Len(cs) - i]

\* commit_hash of enumerate(commits) at index i, counted from 0 (line 248)
CommitAt(cs, i) == cs[i + 1]

\* the loop of lines 247-263 over enumerate(commits)
RECURSIVE ScriptFrom(_, _, _, _, _, _, _, _, _)
ScriptFrom(i, cs, ed, s, stp, delta, fmt, ea, ee) ==
    IF i >= Len(cs) THEN <<>>
    ELSE <<PickLine(CommitAt(cs, i)),
           ExecLine(ea, ee,
                    IF ed /\ s.ord # 0
                    THEN DateCmdPart(CommitDate(CommitTime(s, stp, Len(cs), i),
                                                delta, fmt))
                    ELSE <<"">>)>>
         \o ScriptFrom(i + 1, cs, ed, s, stp, delta, fmt, ea, ee)

-----------------------------------------------------------------------------
(* The inputs of a run: the command line, the answers typed at the         *)
(* prompts, the clock and the state of the repository.                     *)

Dt(y, m, d, sec, us) == [ord |-> ymd2ord(y, m, d), sec |-> sec, us |-> us]

\* st = et = None (line 186)
NoDt == [ord |-> 0, sec |-> 0, us |-> 0]

NoDelta == timedelta(0, 0, 0)

\* values of --start-time / --end-time and of the answers to their prompts;
\* <<>> is an option that was not given (None and "" are both falsy)
TimeInputs ==
    {<<>>,
     <<"2", "0", "2", "5", "-", "1", "3", "-", "0", "1">>,
     isoformat(Dt(2025, 1, 1, 0, 0)),
     isoformat(Dt(2025, 1, 1, 1, 0)),
     isoformat(Dt(2025, 1, 5, 0, 0))}

\* datetime.now() (lines 117, 143)
NowValues == {Dt(2025, 1, 1, 1, 1)}

\* values of --timezone
Tz(sign, h, m) == sign \o h \o <<":">> \o m

TzInputs ==
    {Tz(<<"+">>, <<"0", "5">>, <<"3", "0">>),
     Tz(<<"+">>, <<"0", "0", "5">>, <<"3", "0">>),
     <<"0", "5", "0", "0">>}

TzSigns == {<<>>, <<"+">>, <<"-">>}

TzHours == {<<"0", "0">>, <<"0", "5">>, <<"1", "4">>, <<"1", "5">>, <<"5">>,
            <<"0", "0", "5">>, <<" ", "5">>, <<"+", "5">>, <<"-", "5">>, <<"a">>, <<>>}

TzMinutes == {<<"0", "0">>, <<"3", "0">>, <<"5", "9">>, <<"6", "0">>, <<"0">>,
              <<"0", "3", "0">>}

TzStrings ==
    {Tz(sg, h, m) : sg \in TzSigns, h \in TzHours, m \in TzMinutes}
    \cup {<<"0", "5", "0", "0">>, <<"+", "0", "5", "3", "0">>, <<>>, <<"+">>,
          Tz(<<"+">>, <<"0", "5">>, <<"3", "0", ":", "0", "0">>)}

Names == {<<>>, <<"O", "'", "B">>}

Emails == {<<>>, <<"o", "@", "b">>}

Urls == {<<>>, <<"u", "r", "l">>}

\* what the operator types at a prompt
TypedNames == {<<>>, <<"A", "\t", "n", " ">>}

TypedUrls == {<<" ", "u", "r", "\t", "l">>}

TypedEmails == {<<>>, <<"o", "@", "b", " ">>}

TypedTimes == {<<>>, <<" ">> \o isoformat(Dt(2025, 1, 1, 0, 0))}

TypedAnswers == {<<>>, <<"y">>, <<" ", "Y", "E", "S">>, <<"n">>}

\* Affirmative with yes as the default answer: C10 must tell the two apart
AffirmativeUnlessNo(typed) == lower(strip(typed)) \notin {<<"n">>, <<"n", "o">>}

\* input(...).strip().lower() in ("y", "yes") (lines 129, 211, 313)
Affirmative(typed) == lower(strip(typed)) \in {<<"y">>, <<"y", "e", "s">>}

\* the n-th commit name of a listing
Hash(k) == <<"c">> \o DigitsOf(k)

\* what `git rev-list --reverse HEAD` can list: up to MaxCommits distinct names
Listings ==
    UNION {{[i \in 1..n |-> Hash(i)], [i \in 1..n |-> Hash(n + 1 - i)]} : n \in 0..MaxCommits}

-----------------------------------------------------------------------------
(* main() (lines 104-319), one action per step.                            *)

ArgsOf(tzs) ==
    [remote_url : Urls, start_time : TimeInputs, end_time : TimeInputs,
     author_name : Names, author_email : Emails, force_push : BOOLEAN,
     timezone : tzs]

InitWith(argset) ==
    /\ pc = "remote_url"
    /\ args \in argset
    /\ edit_dates = FALSE
    /\ choice = <<>>
    /\ author = <<>> /\ email = <<>>
    /\ commits = <<>>
    /\ st = NoDt /\ et = NoDt /\ step = NoDelta
    /\ tz_delta = NoDelta /\ tz_git_format = <<>>
    /\ rebase_script_parts = <<>>
    /\ editor_script = FALSE
    /\ rebase_rc = "none"
    /\ ops = <<>>
    /\ printed = <<>>
    /\ failure = "none"
    /\ exit_code = 0

Init == InitWith(ArgsOf(TzInputs))

\* sys.exit(code), or an exception nothing catches (the interpreter then
\* prints the traceback and exits with status 1)
Exit(code, why, msgs) ==
    /\ pc' = "done"
    /\ exit_code' = code
    /\ failure' = why
    /\ printed' = printed \o msgs

Goto(next) ==
    /\ pc' = next
    /\ UNCHANGED <<exit_code, failure>>

\* lines 107-110
RemoteUrl ==
    /\ pc = "remote_url"
    /\ IF args.remote_url = <<>>
       THEN /\ \E typed \in TypedUrls :
                  args' = [args EXCEPT !.remote_url = clean_input(strip(typed))]
            /\ printed' = Append(printed, "Enter new Git remote URL for origin: ")
       ELSE UNCHANGED <<args, printed>>
    /\ Goto("dates")
    /\ UNCHANGED <<edit_dates, choice, author, email, commits, st, et, step, tz_delta,
                   tz_git_format, rebase_script_parts, editor_script, rebase_rc, ops>>

\* lines 114-117
DatesFromArgs ==
    /\ pc = "dates"
    /\ args.start_time # <<>>
    /\ edit_dates' = TRUE
    /\ IF args.end_time = <<>>
       THEN \E now \in NowValues : args' = [args EXCEPT !.end_time = isoformat(now)]
       ELSE UNCHANGED args
    /\ Goto("repo")
    /\ UNCHANGED <<choice, author, email, commits, st, et, step, tz_delta, tz_git_format,
                   rebase_script_parts, editor_script, rebase_rc, ops, printed>>

\* lines 119-124
EndWithoutStart ==
    /\ pc = "dates"
    /\ args.start_time = <<>> /\ args.end_time # <<>>
    /\ Exit(1, "end_without_start",
            <<"Error: --start-time must be provided if --end-time is specified.">>)
    /\ UNCHANGED <<args, edit_dates, choice, author, email, commits, st, et, step, tz_delta,
                   tz_git_format, rebase_script_parts, editor_script, rebase_rc, ops>>

\* lines 126-143
PromptDates ==
    /\ pc = "dates"
    /\ args.start_time = <<>> /\ args.end_time = <<>>
    /\ \E typed \in TypedAnswers :
          /\ choice' = lower(strip(typed))
          /\ IF Affirmative(typed)
             THEN /\ edit_dates' = TRUE
                  /\ \E typed_start \in TypedTimes, typed_end \in TypedTimes,
                        now \in NowValues :
                        args' = [args EXCEPT
                                   !.start_time = clean_input(strip(typed_start)),
                                   !.end_time = IF clean_input(strip(typed_end)) = <<>>
                                                THEN isoformat(now)
                                                ELSE clean_input(strip(typed_end))]
                  /\ printed' = printed \o
                        <<"Do you want to edit the commit dates? [y/N]: ",
                          "Enter ISO start timestamp (e.g. 2025-01-01T00:00:00): ",
                          "Enter ISO end timestamp (e.g. 2025-06-30T23:59:59) [optional]: ">>
             ELSE /\ printed' = Append(printed,
                                       "Do you want to edit the commit dates? [y/N]: ")
                  /\ UNCHANGED <<edit_dates, args>>
    /\ Goto("repo")
    /\ UNCHANGED <<author, email, commits, st, et, step, tz_delta, tz_git_format,
                   rebase_script_parts, editor_script, rebase_rc, ops>>

\* lines 145-151: os.path.isdir(repo/.git)
CheckRepo ==
    /\ pc = "repo"
    /\ \E isdir \in BOOLEAN :
          IF isdir
          THEN Goto("worktree") /\ UNCHANGED printed
          ELSE Exit(1, "not_a_repo", <<"Error: repo is not a git repo.">>)
    /\ UNCHANGED <<args, edit_dates, choice, author, email, commits, st, et, step, tz_delta,
                   tz_git_format, rebase_script_parts, editor_script, rebase_rc, ops>>

\* ensure_clean_worktree (lines 80-95), called at line 152
ensure_clean_worktree ==
    /\ pc = "worktree"
    /\ \E status \in {"error", "dirty", "clean"} :
          CASE status = "error" ->
                 Exit(1, "status_error", <<"Error checking git status">>)
            [] status = "dirty" ->
                 Exit(1, "dirty",
                      <<"Error: working directory has uncommitted changes. Please commit or stash before rewriting history.">>)
            [] OTHER -> Goto("identity") /\ UNCHANGED printed
    /\ UNCHANGED <<args, edit_dates, choice, author, email, commits, st, et, step, tz_delta,
                   tz_git_format, rebase_script_parts, editor_script, rebase_rc, ops>>

\* lines 154-166: args, then git config, then the prompt
Resolved(given, configured, typed) ==
    IF given # <<>> THEN given
    ELSE IF strip(configured) # <<>> THEN strip(configured)
    ELSE clean_input(strip(typed))

Asked(given, configured) == given = <<>> /\ strip(configured) = <<>>

Identity ==
    /\ pc = "identity"
    /\ \E cfg_name \in Names, cfg_email \in Emails,
          typed_name \in TypedNames, typed_email \in TypedEmails :
          /\ author' = Resolved(args.author_name, cfg_name, typed_name)
          /\ email' = Resolved(args.author_email, cfg_email, typed_email)
          /\ LET asked == (IF Asked(args.author_name, cfg_name)
                           THEN <<"Enter new author name: ">> ELSE <<>>)
                          \o (IF Asked(args.author_email, cfg_email)
                              THEN <<"Enter new author email: ">> ELSE <<>>)
             IN  IF author' = <<>> \/ email' = <<>>
                 THEN Exit(1, "missing_identity",
                           asked \o <<"Error: author name and email must be provided.">>)
                 ELSE Goto("remote") /\ printed' = printed \o asked
    /\ UNCHANGED <<args, edit_dates, choice, commits, st, et, step, tz_delta, tz_git_format,
                   rebase_script_parts, editor_script, rebase_rc, ops>>

\* a git command that changes the repository ran, with this outcome
Ran(cmd, ok) == ops' = Append(ops, [cmd |-> cmd, ok |-> ok])

\* ensure_remote (lines 73-77), called at line 168; check=True raises
\* CalledProcessError when the command fails
ensure_remote ==
    /\ pc = "remote"
    /\ \E has_origin \in BOOLEAN, ok \in BOOLEAN :
          /\ Ran(IF has_origin THEN "remote set-url" ELSE "remote add", ok)
          /\ IF ok
             THEN Goto("rev_list") /\ UNCHANGED printed
             ELSE Exit(1, "remote_error", <<"Traceback: CalledProcessError">>)
    /\ UNCHANGED <<args, edit_dates, choice, author, email, commits, st, et, step, tz_delta,
                   tz_git_format, rebase_script_parts, editor_script, rebase_rc>>

\* lines 171-184
ListCommits ==
    /\ pc = "rev_list"
    /\ \E ok \in BOOLEAN, listing \in Listings :
          IF ~ok
          THEN Exit(1, "rev_list_error", <<"Traceback: CalledProcessError">>)
               /\ UNCHANGED commits
          ELSE /\ commits' = listing
               /\ IF Len(listing) = 0
                  THEN Exit(1, "empty_history", <<"No commits to rewrite.">>)
                  ELSE Goto("interval") /\ UNCHANGED printed
    /\ UNCHANGED <<args, edit_dates, choice, author, email, st, et, step, tz_delta,
                   tz_git_format, rebase_script_parts, editor_script, rebase_rc, ops>>

\* lines 206-210
SameTimeWarning ==
    <<"Warning: start-time equals end-time. All commits will have the same timestamp.",
      "Continue anyway? [y/N]: ">>

\* lines 186-215
Interval ==
    /\ pc = "interval"
    /\ IF ~edit_dates
       THEN /\ Goto("timezone")
            /\ UNCHANGED <<st, et, step, printed>>
       ELSE IF ~(IsoOk(args.start_time) /\ IsoOk(args.end_time))
       THEN /\ Exit(1, "bad_timestamp", <<"Bad timestamp">>)
            /\ UNCHANGED <<st, et, step>>
       ELSE /\ st' = fromisoformat(args.start_time)
            /\ et' = fromisoformat(args.end_time)
            /\ IF DtLess(et', st')
               THEN /\ Exit(1, "end_before_start",
                            <<"Error: end-time must follow start-time.">>)
                    /\ UNCHANGED step
               ELSE IF et' = st' /\ Len(commits) > 1
               THEN \E response \in TypedAnswers :
                       IF Affirmative(response)
                       THEN /\ step' = Step(st', et', Len(commits))
                            /\ Goto("timezone")
                            /\ printed' = printed \o SameTimeWarning
                       ELSE /\ Exit(0, "declined_same_time", SameTimeWarning)
                            /\ UNCHANGED step
               ELSE /\ step' = Step(st', et', Len(commits))
                    /\ Goto("timezone")
                    /\ UNCHANGED printed
    /\ UNCHANGED <<args, edit_dates, choice, author, email, commits, tz_delta, tz_git_format,
                   rebase_script_parts, editor_script, rebase_rc, ops>>

\* lines 217-242
Timezone ==
    /\ pc = "timezone"
    /\ IF TzAccepted(args.timezone)
       THEN /\ tz_delta' = TzDelta(args.timezone)
            /\ tz_git_format' = TzGitFormat(args.timezone)
            /\ Goto("script")
            /\ UNCHANGED printed
       ELSE /\ Exit(1, "bad_timezone",
                    <<TzErrorLine(args.timezone),
                      "Expected format: +-HH:MM (e.g., +05:30, -07:00)">>)
            /\ UNCHANGED <<tz_delta, tz_git_format>>
    /\ UNCHANGED <<args, edit_dates, choice, author, email, commits, st, et, step,
                   rebase_script_parts, editor_script, rebase_rc, ops>>

\* lines 244-264
BuildScript ==
    /\ pc = "script"
    /\ rebase_script_parts' =
          ScriptFrom(0, commits, edit_dates, st, step, tz_delta, tz_git_format,
                     escape_shell_single_quote(author),
                     escape_shell_single_quote(email))
    /\ Goto("editor_file")
    /\ UNCHANGED <<args, edit_dates, choice, author, email, commits, st, et, step, tz_delta,
                   tz_git_format, editor_script, rebase_rc, ops, printed>>

\* lines 270-283: the temporary file is created with delete=False
WriteEditorScript ==
    /\ pc = "editor_file"
    /\ editor_script' = TRUE
    /\ printed' = Append(printed, "Rewriting history...")
    /\ Goto("rebase")
    /\ UNCHANGED <<args, edit_dates, choice, author, email, commits, st, et, step, tz_delta,
                   tz_git_format, rebase_script_parts, rebase_rc, ops>>

\* lines 284-289: subprocess.run without check returns the status of git, or
\* raises when the command cannot be run to its end (OSError, an interrupt)
RunRebase ==
    /\ pc = "rebase"
    /\ \E outcome \in {"zero", "nonzero", "raised"} :
          /\ rebase_rc' = outcome
          /\ Ran("rebase", outcome = "zero")
          /\ IF outcome = "raised"
             THEN Exit(1, "rebase_raised", <<"Traceback">>)
             ELSE Goto("remove_file") /\ UNCHANGED printed
    /\ UNCHANGED <<args, edit_dates, choice, author, email, commits, st, et, step, tz_delta,
                   tz_git_format, rebase_script_parts, editor_script>>

\* line 291
RemoveEditorScript ==
    /\ pc = "remove_file"
    /\ editor_script' = FALSE
    /\ Goto("rebase_result")
    /\ UNCHANGED <<args, edit_dates, choice, author, email, commits, st, et, step, tz_delta,
                   tz_git_format, rebase_script_parts, rebase_rc, ops, printed>>

\* RebaseFailed looking only for a rebase that did not return: C5 must tell
\* the two apart
RebaseFailedOnlyIfRaised(rc) == rc = "raised"

\* rebase_proc.returncode != 0 (line 293)
RebaseFailed(rc) == rc # "zero"

\* lines 293-299
RebaseResult ==
    /\ pc = "rebase_result"
    /\ IF RebaseFailed(rebase_rc)
       THEN Exit(1, "rebase_failed", <<"Error during rebase:", "stdout", "stderr">>)
       ELSE /\ Goto("reflog")
            /\ printed' = Append(printed, "History rewritten successfully.")
    /\ UNCHANGED <<args, edit_dates, choice, author, email, commits, st, et, step, tz_delta,
                   tz_git_format, rebase_script_parts, editor_script, rebase_rc, ops>>

\* line 302
ReflogExpire ==
    /\ pc = "reflog"
    /\ \E ok \in BOOLEAN :
          /\ Ran("reflog expire", ok)
          /\ IF ok
             THEN Goto("gc") /\ UNCHANGED printed
             ELSE Exit(1, "reflog_error", <<"Traceback: CalledProcessError">>)
    /\ UNCHANGED <<args, edit_dates, choice, author, email, commits, st, et, step, tz_delta,
                   tz_git_format, rebase_script_parts, editor_script, rebase_rc>>

\* line 303
GarbageCollect ==
    /\ pc = "gc"
    /\ \E ok \in BOOLEAN :
          /\ Ran("gc", ok)
          /\ IF ok
             THEN Goto("push") /\ UNCHANGED printed
             ELSE Exit(1, "gc_error", <<"Traceback: CalledProcessError">>)
    /\ UNCHANGED <<args, edit_dates, choice, author, email, commits, st, et, step, tz_delta,
                   tz_git_format, rebase_script_parts, editor_script, rebase_rc>>

\* subprocess.run(push_cmd, check=True) and the message after it
\* (lines 307-308, 314-315)
Push(before, ok) ==
    /\ Ran("push", ok)
    /\ IF ok
       THEN Exit(0, "none", before \o <<"History rewritten and force-pushed.">>)
       ELSE Exit(1, "push_error", before \o <<"Traceback: CalledProcessError">>)

PushPrompt == "Do you want to push to origin now? [y/N]: "

\* "  " + " ".join(push_cmd) (lines 305, 319)
ManualPush == "  git push -u origin --force --all"

\* lines 305-309
ForcePush ==
    /\ pc = "push"
    /\ args.force_push
    /\ \E ok \in BOOLEAN : Push(<<>>, ok)
    /\ UNCHANGED <<args, edit_dates, choice, author, email, commits, st, et, step, tz_delta,
                   tz_git_format, rebase_script_parts, editor_script, rebase_rc>>

\* lines 311-319
PromptPush ==
    /\ pc = "push"
    /\ ~args.force_push
    /\ \E typed \in TypedAnswers :
          /\ choice' = lower(strip(typed))
          /\ IF Affirmative(typed)
             THEN \E ok \in BOOLEAN : Push(<<PushPrompt>>, ok)
             ELSE /\ Exit(0, "none",
                          <<PushPrompt, "History rewritten, skipping push.",
                            "To push manually, run:", ManualPush>>)
                  /\ UNCHANGED ops
    /\ UNCHANGED <<args, edit_dates, author, email, commits, st, et, step, tz_delta,
                   tz_git_format, rebase_script_parts, editor_script, rebase_rc>>

Next ==
    \/ RemoteUrl
    \/ DatesFromArgs
    \/ EndWithoutStart
    \/ PromptDates
    \/ CheckRepo
    \/ ensure_clean_worktree
    \/ Identity
    \/ ensure_remote
    \/ ListCommits
    \/ Interval
    \/ Timezone
    \/ BuildScript
    \/ WriteEditorScript
    \/ RunRebase
    \/ RemoveEditorScript
    \/ RebaseResult
    \/ ReflogExpire
    \/ GarbageCollect
    \/ ForcePush
    \/ PromptPush

Spec == Init /\ [][Next]_vars

\* The same program run over the timezone strings: three command lines (all
\* values prompted for, --end-time alone, everything given and pushed without
\* asking), each with every string of TzStrings as --timezone.
TzRuns ==
    {[remote_url |-> <<>>, start_time |-> <<>>, end_time |-> <<>>,
      author_name |-> <<>>, author_email |-> <<>>, force_push |-> FALSE,
      timezone |-> z] : z \in TzStrings}
    \cup
    {[remote_url |-> <<"u", "r", "l">>, start_time |-> <<>>,
      end_time |-> isoformat(Dt(2025, 1, 5, 0, 0)),
      author_name |-> <<"O", "'", "B">>, author_email |-> <<"o", "@", "b">>,
      force_push |-> FALSE, timezone |-> z] : z \in TzStrings}
    \cup
    {[remote_url |-> <<"u", "r", "l">>,
      start_time |-> isoformat(Dt(2025, 1, 1, 0, 0)),
      end_time |-> isoformat(Dt(2025, 1, 5, 0, 0)),
      author_name |-> <<"O", "'", "B">>, author_email |-> <<"o", "@", "b">>,
      force_push |-> TRUE, timezone |-> z] : z \in TzStrings}

InitTz == InitWith(TzRuns)

SpecTz == InitTz /\ [][Next]_vars

-----------------------------------------------------------------------------
(* Properties.                                                             *)

Range(seq) == {seq[i] : i \in 1..Len(seq)}

\* the run has passed lines 186-215
AfterInterval ==
    {"timezone", "script", "editor_file", "rebase", "remove_file",
     "rebase_result", "reflog", "gc", "push"}

\* the run has passed lines 217-242
AfterTimezone == AfterInterval \ {"timezone"}

\* the run has passed lines 244-264
ScriptBuilt == AfterTimezone \ {"script"}

\* the timestamps of the commits, oldest first (line 254)
Timestamps ==
    [i \in 1..Len(commits) |-> CommitTime(st, step, Len(commits), i - 1)]

\* C1: with date editing on, the computed timestamps are as many as the
\* commits, never decrease, start at start-time and, when there is more than
\* one commit, end exactly at end-time.
C1_TimestampsSpanInterval ==
    (edit_dates /\ pc \in AfterInterval) =>
        /\ Len(Timestamps) = Len(commits)
        /\ \A i \in 1..(Len(commits) - 1) : ~DtLess(Timestamps[i + 1], Timestamps[i])
        /\ Timestamps[1] = st
        /\ (Len(commits) > 1 => Timestamps[Len(commits)] = et)

\* the checks the run can fail before it rewrites anything
ValidationFailures ==
    {"not_a_repo", "dirty", "empty_history", "bad_timestamp", "end_before_start",
     "bad_timezone", "missing_identity"}

\* C2: a run that ends on a validation failure has run no git command that
\* changes the repository, and exits with a non-zero status.
C2_ValidationBeforeMutation ==
    (pc = "done" /\ failure \in ValidationFailures) =>
        (ops = <<>> /\ exit_code # 0)

\* C3: the script is one (pick, exec amend) pair per listed commit, the i-th
\* pair picking the i-th commit of the listing.
C3_ScriptFollowsListing ==
    pc \in ScriptBuilt =>
        /\ Len(rebase_script_parts) = 2 * Len(commits)
        /\ \A i \in 1..Len(commits) :
              /\ rebase_script_parts[2 * i - 1] = <<"pick ", commits[i]>>
              /\ rebase_script_parts[2 * i][1] = "exec GIT_COMMITTER_NAME='"
              /\ "git commit --amend --no-edit --author='"
                    \in Range(rebase_script_parts[2 * i])

C3_Witness ==
    /\ pc = "editor_file"
    /\ Len(commits) = 3
    /\ commits[1] = Hash(3)
    /\ Len(rebase_script_parts) = 6

\* C4: once created, the editor script file is gone when the run ends, and
\* before reflog expiry, garbage collection or push begin.
C4_EditorScriptRemoved ==
    pc \in {"done", "reflog", "gc", "push"} => ~editor_script

\* C5: after the rebase returned non-zero the run exits with status 1, and
\* reflog expiry, garbage collection and push are never run.
C5_FailedRebaseStops ==
    rebase_rc = "nonzero" =>
        /\ \A k \in 1..Len(ops) : ops[k].cmd \notin {"reflog expire", "gc", "push"}
        /\ pc \notin {"reflog", "gc", "push"}
        /\ (pc = "done" => exit_code = 1)

C5_Witness == pc = "done" /\ rebase_rc = "nonzero" /\ ~editor_script


\* the strings of the grammar sign HH ":" MM, HH in 00..14, MM in 00..59
GrammarOk(tz) ==
    /\ Len(tz) = 6
    /\ tz[1] \in {"+", "-"}
    /\ AllDigits(tz, 2, 3) /\ tz[4] = ":" /\ AllDigits(tz, 5, 6)
    /\ Num(tz, 2, 3) <= 14 /\ Num(tz, 5, 6) <= 59

\* the offset such a string names, in seconds, and its sign+HHMM form
OffsetSeconds(tz) ==
    (IF tz[1] = "+" THEN 1 ELSE -1) * (Num(tz, 2, 3) * 3600 + Num(tz, 5, 6) * 60)

GitSuffix(tz) == <<tz[1], tz[2], tz[3], tz[5], tz[6]>>

\* the dates the exec line of commit i sets
CommitterDate(i) == rebase_script_parts[2 * i][7]

AuthorDate(i) == rebase_script_parts[2 * i][9]

\* "YYYY-MM-DD HH:MM:SS " followed by the suffix
DateShape(ds, suffix) ==
    /\ Len(ds) = 20 + Len(suffix)
    /\ AllDigits(ds, 1, 4) /\ ds[5] = "-" /\ AllDigits(ds, 6, 7) /\ ds[8] = "-"
    /\ AllDigits(ds, 9, 10) /\ ds[11] = " " /\ AllDigits(ds, 12, 13) /\ ds[14] = ":"
    /\ AllDigits(ds, 15, 16) /\ ds[17] = ":" /\ AllDigits(ds, 18, 19) /\ ds[20] = " "
    /\ SubSeq(ds, 21, Len(ds)) = suffix

\* how many seconds the date and clock fields of ds are after the second of t
SecondsAfter(ds, t) ==
    (ymd2ord(Num(ds, 1, 4), Num(ds, 6, 7), Num(ds, 9, 10)) - t.ord) * 86400
    + (Num(ds, 12, 13) * 3600 + Num(ds, 15, 16) * 60 + Num(ds, 18, 19)) - t.sec

DatesWritten == pc \in ScriptBuilt /\ edit_dates /\ GrammarOk(args.timezone)

Plus0530 == Tz(<<"+">>, <<"0", "5">>, <<"3", "0">>)

\* C6 as stated: the date and clock fields written for a commit are those of
\* its distributed timestamp t, followed by the offset in sign+HHMM form;
\* +05:30 on 2025-01-01T00:00:00 gives "2025-01-01 00:00:00 +0530".
C6_DateKeepsClock ==
    DatesWritten =>
        \A i \in 1..Len(commits) :
            /\ AuthorDate(i) = CommitterDate(i)
            /\ DateShape(CommitterDate(i), GitSuffix(args.timezone))
            /\ SecondsAfter(CommitterDate(i), Timestamps[i]) = 0
            /\ (args.timezone = Plus0530 /\ Timestamps[i] = Dt(2025, 1, 1, 0, 0)
                  => Join(CommitterDate(i)) = "2025-01-01 00:00:00 +0530")

\* C6, amended: the date and clock fields written for a commit are those of
\* its distributed timestamp t moved by the offset (t + offset), followed by
\* the offset in sign+HHMM form; +05:30 on 2025-01-01T00:00:00 gives
\* "2025-01-01 05:30:00 +0530".
C6_DateShiftedByOffset ==
    DatesWritten =>
        \A i \in 1..Len(commits) :
            /\ AuthorDate(i) = CommitterDate(i)
            /\ DateShape(CommitterDate(i), GitSuffix(args.timezone))
            /\ SecondsAfter(CommitterDate(i), Timestamps[i]) = OffsetSeconds(args.timezone)
            /\ (args.timezone = Plus0530 /\ Timestamps[i] = Dt(2025, 1, 1, 0, 0)
                  => Join(CommitterDate(i)) = "2025-01-01 05:30:00 +0530")

C6_Witness ==
    /\ pc = "editor_file"
    /\ edit_dates
    /\ args.timezone = Plus0530
    /\ Len(commits) > 1
    /\ st = Dt(2025, 1, 1, 0, 0)
    /\ et = Dt(2025, 1, 5, 0, 0)

\* sign and exactly two hour digits and two minute digits
FixedWidthOffset(fmt) ==
    Len(fmt) = 5 /\ fmt[1] \in {"+", "-"} /\ AllDigits(fmt, 2, 5)

\* what the message for a rejected string can give as the reason
RejectReasons(tz) ==
    {"Timezone must start with + or -", "Timezone must include colon separator",
     "too many values to unpack (expected 2)", "Invalid hour or minute values"}
    \cup {"invalid literal for int() with base 10: '" \o Join(SubSeq(tz, i, j)) \o "'" :
             i \in 1..(Len(tz) + 1), j \in 0..Len(tz)}

\* C7: the timezone is accepted exactly when it is a string of the grammar;
\* any other string ends the run with status 1 and a message naming it, and
\* every accepted string yields a sign+HHMM offset of fixed width.
C7_TimezoneGrammar ==
    /\ pc \in AfterTimezone =>
          GrammarOk(args.timezone) /\ FixedWidthOffset(tz_git_format)
    /\ failure = "bad_timezone" =>
          /\ ~GrammarOk(args.timezone)
          /\ exit_code = 1
          /\ \E why \in RejectReasons(args.timezone) :
                ("Error: invalid timezone format '" \o Join(args.timezone) \o "': " \o why)
                    \in Range(printed)

ConfirmPrompt == "Continue anyway? [y/N]: "

\* C8: start == end with more than one commit asks for confirmation before
\* the rewrite; a declined confirmation ends the run with status 0 and the
\* repository untouched; with one commit the confirmation is never asked.
C8_SameTimeConfirmation ==
    /\ (edit_dates /\ pc \in AfterInterval /\ et = st /\ Len(commits) > 1)
          => ConfirmPrompt \in Range(printed)
    /\ failure = "declined_same_time" => (exit_code = 0 /\ ops = <<>>)
    /\ Len(commits) = 1 => ConfirmPrompt \notin Range(printed)

\* C9: a push that fails after the rewrite is reported with the manual push
\* command, and the outcome of the run still is that of a successful rewrite.
C9_PushFailureReported ==
    failure = "push_error" =>
        /\ ManualPush \in Range(printed)
        /\ exit_code = 0

PushAt == {k \in 1..Len(ops) : ops[k].cmd = "push"}

Yes == {<<"y">>, <<"y", "e", "s">>}

\* C10: push runs at most once, as the last command, right after a rebase
\* that returned zero, then reflog expiry, then garbage collection, each
\* successful; with --force-push nothing is asked, without it the push
\* follows the answer y or yes, and any other answer ends the run with
\* status 0 and no push.
C10_PushOnlyAfterCleanup ==
    /\ Cardinality(PushAt) <= 1
    /\ \A k \in PushAt :
          /\ k = Len(ops) /\ k >= 4
          /\ rebase_rc = "zero"
          /\ ops[k - 3] = [cmd |-> "rebase", ok |-> TRUE]
          /\ ops[k - 2] = [cmd |-> "reflog expire", ok |-> TRUE]
          /\ ops[k - 1] = [cmd |-> "gc", ok |-> TRUE]
          /\ IF args.force_push
             THEN PushPrompt \notin Range(printed)
             ELSE PushPrompt \in Range(printed) /\ choice \in Yes
    /\ (pc = "done" /\ PushPrompt \in Range(printed) /\ choice \notin Yes)
          => (exit_code = 0 /\ PushAt = {})

C10_Witness ==
    /\ pc = "done"
    /\ ~args.force_push
    /\ PushAt # {}
    /\ exit_code = 0

====
